---------------------------- MODULE Spec2Model ----------------------------
(***************************************************************************)
(* Tools configuration of the Azure DevOps MCP server: the static catalog  *)
(* of features and tools, the zod schema of tools.config.json, the loader  *)
(* loadToolsConfig and the resolver functions isFeatureEnabled,            *)
(* isToolEnabled, getEnabledTools and getDisabledTools; and the pull       *)
(* request operation updatePullRequestComment.                             *)
(*                                                                         *)
(* JavaScript values are modelled by records that carry their type, so     *)
(* that a test such as `x === undefined`, `a || b` or zod's type check is  *)
(* computed from the value and never assumed.                              *)
(***************************************************************************)
EXTENDS Integers, Sequences, FiniteSets, TLC

VARIABLES
    env,      \* process.env.AZURE_DEVOPS_TOOLS_CONFIG
    arg,      \* the configPath argument of the last call of loadToolsConfig
    fsAnswer, \* what the file system answered that call: [exists, read]
    outcome,  \* how the last call of loadToolsConfig ended
    calls,    \* the external calls the last loadToolsConfig made, in order
    stderr,   \* the lines the last loadToolsConfig wrote to process.stderr
    query,    \* the last resolver call and its result
    heap,     \* the configuration objects alive, by reference
    returned, \* what each call of loadToolsConfig returned, in call order
    lastAnswer, \* the last resolver call of the concurrent runs
    pr        \* the call of updatePullRequestComment in progress

vars == <<env, arg, fsAnswer, outcome, calls, stderr, query,
          heap, returned, lastAnswer, pr>>

(***************************************************************************)
(* Bounds of the model.                                                    *)
(***************************************************************************)
\* number of keys a "features" object of a payload holds at most
MaxFeatureKeys == 2
\* length of a "disabled" array of a payload at most
MaxDisabled == 2
\* length of the candidate list handed to getEnabledTools/getDisabledTools
MaxList == 2

(***************************************************************************)
(* Small helpers on sequences.                                             *)
(***************************************************************************)
Range(s) == {s[i] : i \in DOMAIN s}

SeqsUpTo(S, n) == UNION {[1..k -> S] : k \in 0..n}

\* Array.prototype.join
RECURSIVE Join(_, _)
Join(s, sep) ==
    IF s = <<>> THEN ""
    ELSE IF Len(s) = 1 THEN s[1]
    ELSE s[1] \o sep \o Join(Tail(s), sep)

(***************************************************************************)
(* Catalog.                                                                *)
(***************************************************************************)
FEATURE_NAMES ==
    << "users", "organizations", "projects", "repositories", "work-items",
       "search", "pull-requests", "pipelines", "wikis" >>

FEATURE_TOOLS ==
    [ f \in Range(FEATURE_NAMES) |->
        CASE f = "users" -> << "get_me" >>
          [] f = "organizations" -> << "list_organizations" >>
          [] f = "projects" ->
                << "list_projects", "get_project", "get_project_details" >>
          [] f = "repositories" ->
                << "get_repository", "get_repository_details",
                   "list_repositories", "get_file_content",
                   "get_all_repositories_tree", "get_repository_tree",
                   "create_branch", "create_commit", "list_commits" >>
          [] f = "work-items" ->
                << "list_work_items", "get_work_item", "create_work_item",
                   "update_work_item", "manage_work_item_link" >>
          [] f = "search" ->
                << "search_code", "search_wiki", "search_work_items" >>
          [] f = "pull-requests" ->
                << "create_pull_request", "list_pull_requests",
                   "get_pull_request_comments", "add_pull_request_comment",
                   "update_pull_request", "get_pull_request_changes",
                   "get_pull_request_checks", "update_pull_request_comment" >>
          [] f = "pipelines" ->
                << "list_pipelines", "get_pipeline", "list_pipeline_runs",
                   "get_pipeline_run", "download_pipeline_artifact",
                   "pipeline_timeline", "get_pipeline_log",
                   "trigger_pipeline" >>
          [] f = "wikis" ->
                << "get_wikis", "get_wiki_page", "create_wiki",
                   "update_wiki_page", "list_wiki_pages",
                   "create_wiki_page" >> ]

\* Object.entries(FEATURE_TOOLS): the features in the order of the literal
FeatureEntries == FEATURE_NAMES

\* acc[tool] = feature
SetKey(acc, tool, feature) ==
    [k \in DOMAIN acc \cup {tool} |-> IF k = tool THEN feature ELSE acc[k]]

\* a reduce callback whose loop starts at the second tool of each list
RECURSIVE AssignToolsSkippingFirst(_, _, _)
AssignToolsSkippingFirst(acc, feature, tools) ==
    LET RECURSIVE Assign(_, _)
        Assign(a, ts) ==
            IF ts = <<>> THEN a
            ELSE Assign([k \in DOMAIN a \cup {Head(ts)} |->
                            IF k = Head(ts) THEN feature ELSE a[k]], Tail(ts))
    IN IF tools = <<>> THEN acc ELSE Assign(acc, Tail(tools))

\* the body of the reduce callback: for (const tool of tools) acc[tool] = feature
RECURSIVE AssignTools(_, _, _)
AssignTools(acc, feature, tools) ==
    IF tools = <<>> THEN acc
    ELSE AssignTools(SetKey(acc, Head(tools), feature), feature, Tail(tools))

RECURSIVE ReduceEntries(_, _)
ReduceEntries(acc, entries) ==
    IF entries = <<>> THEN acc
    ELSE ReduceEntries(AssignTools(acc, Head(entries), FEATURE_TOOLS[Head(entries)]),
                       Tail(entries))

\* the own properties of the reverse index, built once
TOOL_TO_FEATURE == ReduceEntries([k \in {} |-> ""], FeatureEntries)

\* The accumulator of the reduce is the object literal {}: a read of a key it
\* does not own falls through to Object.prototype.
ObjectPrototypeKeys ==
    { "constructor", "toString", "valueOf", "hasOwnProperty",
      "isPrototypeOf", "propertyIsEnumerable", "toLocaleString", "__proto__" }

\* TOOL_TO_FEATURE[toolName] as JavaScript evaluates it
ToolToFeatureGet(toolName) ==
    IF toolName \in DOMAIN TOOL_TO_FEATURE
    THEN [t |-> "string", s |-> TOOL_TO_FEATURE[toolName]]
    ELSE IF toolName \in ObjectPrototypeKeys
    THEN [t |-> "object", s |-> "[inherited " \o toolName \o "]"]
    ELSE [t |-> "undefined", s |-> ""]

\* ToBoolean of the value read
Truthy(v) == v.t # "undefined" /\ ~(v.t = "string" /\ v.s = "")

\* the property key a value is converted to when it indexes an object
ToPropertyKey(v) == v.s

(***************************************************************************)
(* Configuration values.                                                   *)
(***************************************************************************)
NoFeatures == [k \in {} |-> TRUE]

DEFAULT_TOOLS_CONFIG == [features |-> NoFeatures, tools |-> [disabled |-> <<>>]]

(***************************************************************************)
(* Resolver.                                                               *)
(***************************************************************************)
\* `return !!config.features?.[featureName]`: a feature without an override
\* counts as disabled
isFeatureEnabledAbsentIsOff(featureName, config) ==
    IF featureName \notin DOMAIN config.features
    THEN FALSE
    ELSE config.features[featureName]

isFeatureEnabled(featureName, config) ==
    IF featureName \notin DOMAIN config.features
    THEN TRUE
    ELSE config.features[featureName]

\* a tool without an owning feature is reported disabled
isToolEnabledUnknownIsOff(toolName, config) ==
    LET featureName == ToolToFeatureGet(toolName)
    IN IF ~Truthy(featureName) THEN FALSE
       ELSE IF ~isFeatureEnabled(ToPropertyKey(featureName), config) THEN FALSE
       ELSE IF toolName \in Range(config.tools.disabled) THEN FALSE
       ELSE TRUE

\* the two conditions joined by "and": a registered tool is disabled only
\* when its feature is disabled and it is listed as well
isToolEnabledBothNeeded(toolName, config) ==
    LET featureName == ToolToFeatureGet(toolName)
    IN IF Truthy(featureName)
          /\ ~isFeatureEnabled(ToPropertyKey(featureName), config)
          /\ toolName \in Range(config.tools.disabled)
       THEN FALSE
       ELSE IF ~Truthy(featureName) /\ toolName \in Range(config.tools.disabled)
       THEN FALSE
       ELSE TRUE

\* a listed tool disables the tools that share its feature
isToolEnabledSiblingsOff(toolName, config) ==
    LET featureName == ToolToFeatureGet(toolName)
    IN IF Truthy(featureName)
          /\ ~isFeatureEnabled(ToPropertyKey(featureName), config)
       THEN FALSE
       ELSE IF \E i \in DOMAIN config.tools.disabled :
                  \/ config.tools.disabled[i] = toolName
                  \/ /\ Truthy(featureName)
                     /\ ToolToFeatureGet(config.tools.disabled[i]) = featureName
       THEN FALSE
       ELSE TRUE

isToolEnabled(toolName, config) ==
    LET featureName == ToolToFeatureGet(toolName)
    IN IF Truthy(featureName)
          /\ ~isFeatureEnabled(ToPropertyKey(featureName), config)
       THEN FALSE
       ELSE IF toolName \in Range(config.tools.disabled)
       THEN FALSE
       ELSE TRUE

getEnabledTools(allToolNames, config) ==
    LET keep(toolName) == isToolEnabled(toolName, config)
    IN SelectSeq(allToolNames, keep)

\* the filter of getEnabledTools copied without the negation
getDisabledToolsNotNegated(allToolNames, config) ==
    LET keep(toolName) == isToolEnabled(toolName, config)
    IN SelectSeq(allToolNames, keep)

getDisabledTools(allToolNames, config) ==
    LET keep(toolName) == ~isToolEnabled(toolName, config)
    IN SelectSeq(allToolNames, keep)

(***************************************************************************)
(* Parsed JSON payloads.  A value carries the type zod's getParsedType     *)
(* reports for it: "undefined" (key absent), "null", "boolean", "number",  *)
(* "string", "array" or "object".                                          *)
(*   payload  : [type, features, tools, extra]                             *)
(*   features : [type, entries]   entries: key -> [type, b]                *)
(*   tools    : [type, disabled]  disabled: [type, items]                  *)
(*   item     : [type, s]                                                  *)
(* extra tells whether the object holds a key the schema does not name.    *)
(***************************************************************************)
JBool(b) == [type |-> "boolean", b |-> b]
JOther(type) == [type |-> type, b |-> FALSE]

NoEntries == [k \in {} |-> JBool(TRUE)]

JFeaturesAbsent == [type |-> "undefined", entries |-> NoEntries]
JFeaturesOf(type) == [type |-> type, entries |-> NoEntries]
JFeatures(entries) == [type |-> "object", entries |-> entries]

JStr(s) == [type |-> "string", s |-> s]
JNum(s) == [type |-> "number", s |-> s]

JDisabledAbsent == [type |-> "undefined", items |-> <<>>]
JDisabledOf(type) == [type |-> type, items |-> <<>>]
JDisabled(items) == [type |-> "array", items |-> items]

JToolsAbsent == [type |-> "undefined", disabled |-> JDisabledAbsent]
JToolsOf(type) == [type |-> type, disabled |-> JDisabledAbsent]
JTools(disabled) == [type |-> "object", disabled |-> disabled]

JObject(features, tools, extra) ==
    [type |-> "object", features |-> features, tools |-> tools, extra |-> extra]
JValue(type) ==
    [type |-> type, features |-> JFeaturesAbsent, tools |-> JToolsAbsent,
     extra |-> FALSE]

(***************************************************************************)
(* zod.  A parse yields [ok, value, issues]; an issue is [path, message],  *)
(* its path a sequence of segments (object keys and array indexes).  Every *)
(* field of an object, every key and value of a record and every item of   *)
(* an array is parsed, so the issues of all of them are collected.         *)
(***************************************************************************)
Key(s) == [t |-> "string", s |-> s, n |-> 0]
Index(i) == [t |-> "number", s |-> "", n |-> i]

\* String(segment), as Array.prototype.join converts a path segment
SegmentToString(g) == IF g.t = "number" THEN ToString(g.n) ELSE g.s

Issue(path, message) == [path |-> path, message |-> message]

InvalidType(path, expected, received) ==
    Issue(path, "Expected " \o expected \o ", received " \o received)

\* the keys of payloads' and configurations' features objects, in the order
\* the model enumerates an object's keys
FeatureKeyOrder == << "pipelines", "wikis", "invalid-feature" >>

\* util.joinValues(options): 'a' | 'b' | ...
RECURSIVE JoinValues(_)
JoinValues(options) ==
    IF options = <<>> THEN ""
    ELSE IF Len(options) = 1 THEN "'" \o options[1] \o "'"
    ELSE "'" \o options[1] \o "' | " \o JoinValues(Tail(options))

\* z.string() as the key schema: any feature name is accepted
ZodFeatureKeyIssuesAnyKey(key, path) == <<>>

\* z.enum(FEATURE_NAMES) on a record key
ZodFeatureKeyIssues(key, path) ==
    IF key \in Range(FEATURE_NAMES) THEN <<>>
    ELSE << Issue(path, "Invalid enum value. Expected "
                        \o JoinValues(FEATURE_NAMES)
                        \o ", received '" \o key \o "'") >>

\* z.boolean()
ZodBooleanIssues(v, path) ==
    IF v.type = "boolean" THEN <<>>
    ELSE << InvalidType(path, "boolean", v.type) >>

\* z.string()
ZodStringIssues(v, path) ==
    IF v.type = "string" THEN <<>>
    ELSE << InvalidType(path, "string", v.type) >>

\* the keys of an object, in enumeration order
RECURSIVE KeysInOrder(_, _)
KeysInOrder(order, present) ==
    IF order = <<>> THEN <<>>
    ELSE (IF Head(order) \in present THEN <<Head(order)>> ELSE <<>>)
         \o KeysInOrder(Tail(order), present)

\* ZodRecord: for (const key in data) the key's parse, then the value's parse
RECURSIVE ZodRecordIssues(_, _, _)
ZodRecordIssues(keys, entries, path) ==
    IF keys = <<>> THEN <<>>
    ELSE LET k == Head(keys)
             p == Append(path, Key(k))
         IN ZodFeatureKeyIssues(k, p) \o ZodBooleanIssues(entries[k], p)
            \o ZodRecordIssues(Tail(keys), entries, path)

\* features: z.record(z.enum(FEATURE_NAMES), z.boolean()).optional().default({})
ZodFeatures(v, path) ==
    IF v.type = "undefined"
    THEN [ok |-> TRUE, value |-> NoFeatures, issues |-> <<>>]
    ELSE IF v.type # "object"
    THEN [ok |-> FALSE, value |-> NoFeatures,
          issues |-> << InvalidType(path, "object", v.type) >>]
    ELSE LET keys == KeysInOrder(FeatureKeyOrder, DOMAIN v.entries)
             issues == ZodRecordIssues(keys, v.entries, path)
         IN IF issues # <<>>
            THEN [ok |-> FALSE, value |-> NoFeatures, issues |-> issues]
            ELSE [ok |-> TRUE,
                  value |-> [k \in DOMAIN v.entries |-> v.entries[k].b],
                  issues |-> <<>>]

\* ZodArray of z.string(): every item is parsed
RECURSIVE ZodItemsIssues(_, _, _)
ZodItemsIssues(items, i, path) ==
    IF i > Len(items) THEN <<>>
    ELSE ZodStringIssues(items[i], Append(path, Index(i - 1)))
         \o ZodItemsIssues(items, i + 1, path)

\* disabled: z.array(z.string()).optional().default([])
ZodDisabled(v, path) ==
    IF v.type = "undefined"
    THEN [ok |-> TRUE, value |-> <<>>, issues |-> <<>>]
    ELSE IF v.type # "array"
    THEN [ok |-> FALSE, value |-> <<>>,
          issues |-> << InvalidType(path, "array", v.type) >>]
    ELSE LET issues == ZodItemsIssues(v.items, 1, path)
         IN IF issues # <<>>
            THEN [ok |-> FALSE, value |-> <<>>, issues |-> issues]
            ELSE [ok |-> TRUE,
                  value |-> [i \in DOMAIN v.items |-> v.items[i].s],
                  issues |-> <<>>]

\* tools: z.object({ disabled }).optional().default({ disabled: [] })
ZodTools(v, path) ==
    IF v.type = "undefined"
    THEN [ok |-> TRUE, value |-> [disabled |-> <<>>], issues |-> <<>>]
    ELSE IF v.type # "object"
    THEN [ok |-> FALSE, value |-> [disabled |-> <<>>],
          issues |-> << InvalidType(path, "object", v.type) >>]
    ELSE LET d == ZodDisabled(v.disabled, Append(path, Key("disabled")))
         IN [ok |-> d.ok, value |-> [disabled |-> d.value], issues |-> d.issues]

\* ToolsConfigSchema.safeParse(rawConfig): z.object({ features, tools }).default({})
\* The object schema strips the keys it does not name.
ToolsConfigSchema(rawConfig) ==
    IF rawConfig.type = "undefined"
    THEN [ok |-> TRUE, value |-> DEFAULT_TOOLS_CONFIG, issues |-> <<>>]
    ELSE IF rawConfig.type # "object"
    THEN [ok |-> FALSE, value |-> DEFAULT_TOOLS_CONFIG,
          issues |-> << InvalidType(<<>>, "object", rawConfig.type) >>]
    ELSE LET f == ZodFeatures(rawConfig.features, << Key("features") >>)
             t == ZodTools(rawConfig.tools, << Key("tools") >>)
         IN [ok |-> f.ok /\ t.ok,
             value |-> IF f.ok /\ t.ok
                       THEN [features |-> f.value, tools |-> t.value]
                       ELSE DEFAULT_TOOLS_CONFIG,
             issues |-> f.issues \o t.issues]

(***************************************************************************)
(* Config loader.                                                          *)
(***************************************************************************)
\* optional strings: the configPath argument and the environment variable
Undefined == [t |-> "undefined", s |-> ""]
Str(s) == [t |-> "string", s |-> s]

\* process.cwd()
Cwd == "/work"

\* path.join(process.cwd(), 'tools.config.json')
PathJoin(dir, file) == dir \o "/" \o file

\* the environment variable consulted before the argument
EffectivePathEnvFirst(configPath, envValue) ==
    IF Truthy(envValue) THEN envValue.s
    ELSE IF Truthy(configPath) THEN configPath.s
    ELSE PathJoin(Cwd, "tools.config.json")

\* configPath || process.env.AZURE_DEVOPS_TOOLS_CONFIG || path.join(...)
EffectivePath(configPath, envValue) ==
    IF Truthy(configPath) THEN configPath.s
    ELSE IF Truthy(envValue) THEN envValue.s
    ELSE PathJoin(Cwd, "tools.config.json")

\* errors: [name, code, message], the message as the sequence of its lines
NoError == [name |-> "", code |-> "", message |-> <<>>]
Error(message) == [name |-> "Error", code |-> "", message |-> message]

\* what fs.readFileSync throws: a system error naming the path it was given
FsError(code, path) ==
    [name |-> "Error", code |-> code,
     message |-> << code \o ": open '" \o path \o "'" >>]

\* the SyntaxError JSON.parse throws
SyntaxError(message) ==
    [name |-> "SyntaxError", code |-> "", message |-> << message >>]

\* `  - ${i.path.join('.')}: ${i.message}`
RECURSIVE SegmentStrings(_)
SegmentStrings(path) ==
    IF path = <<>> THEN <<>>
    ELSE << SegmentToString(Head(path)) >> \o SegmentStrings(Tail(path))

IssueLine(i) == "  - " \o Join(SegmentStrings(i.path), ".") \o ": " \o i.message

RECURSIVE IssueLines(_)
IssueLines(issues) ==
    IF issues = <<>> THEN <<>>
    ELSE << IssueLine(Head(issues)) >> \o IssueLines(Tail(issues))

Call(op, path) == [op |-> op, path |-> path]

Returned(config) == [kind |-> "returned", config |-> config, error |-> NoError]
Threw(error) == [kind |-> "threw", config |-> DEFAULT_TOOLS_CONFIG, error |-> error]
NotCalled == [kind |-> "none", config |-> DEFAULT_TOOLS_CONFIG, error |-> NoError]

\* FEATURE_NAMES.filter((f) => !isFeatureEnabled(f, parsedConfig))
DisabledFeatures(parsedConfig) ==
    LET off(f) == ~isFeatureEnabled(f, parsedConfig)
    IN SelectSeq(FEATURE_NAMES, off)

\* the lines written to process.stderr after a successful load
LogLines(effectivePath, parsedConfig) ==
    LET disabledFeatures == DisabledFeatures(parsedConfig)
        disabledTools == parsedConfig.tools.disabled
    IN << "DEBUG - Tools config loaded from: " \o effectivePath >>
       \o (IF Len(disabledFeatures) > 0
           THEN << "  Disabled features: " \o Join(disabledFeatures, ", ") >>
           ELSE <<>>)
       \o (IF Len(disabledTools) > 0
           THEN << "  Disabled tools: " \o Join(disabledTools, ", ") >>
           ELSE <<>>)
       \o (IF Len(disabledFeatures) = 0 /\ Len(disabledTools) = 0
           THEN << "  All features and tools enabled" >>
           ELSE <<>>)

\* a catch block that reports the first issue only
CatchFirstIssueOnly(error, issues, effectivePath) ==
    IF error.name = "SyntaxError"
    THEN Error(<< "Invalid JSON in tools config file at " \o effectivePath
                  \o ": " \o error.message[1] >>)
    ELSE IF error.name = "ZodError"
    THEN Error(<< "Invalid tools config file at " \o effectivePath \o ":" >>
               \o IssueLines(SubSeq(issues, 1, 1)))
    ELSE error

\* The catch block: a SyntaxError and a ZodError are replaced by an Error
\* naming the path; anything else is thrown again as it is.
Catch(error, issues, effectivePath) ==
    IF error.name = "SyntaxError"
    THEN Error(<< "Invalid JSON in tools config file at " \o effectivePath
                  \o ": " \o error.message[1] >>)
    ELSE IF error.name = "ZodError"
    THEN Error(<< "Invalid tools config file at " \o effectivePath \o ":" >>
               \o IssueLines(issues))
    ELSE error

ZodError == [name |-> "ZodError", code |-> "", message |-> <<>>]

\* fs.readFileSync(path, 'utf-8'), given the file system's answer
\* [ok, code, text]: the text, or a system error thrown
ReadFileSync(path, answer) ==
    IF answer.ok
    THEN [threw |-> FALSE, error |-> NoError, text |-> answer.text]
    ELSE [threw |-> TRUE, error |-> FsError(answer.code, path),
          text |-> answer.text]

\* JSON.parse(configContent); a text is [wellFormed, syntaxMessage, value],
\* value being the payload a well-formed text denotes
JsonParse(text) ==
    IF text.wellFormed
    THEN [threw |-> FALSE, error |-> NoError, value |-> text.value]
    ELSE [threw |-> TRUE, error |-> SyntaxError(text.syntaxMessage),
          value |-> text.value]

\* the result of loadToolsConfig: [outcome, calls, stderr]
LoadOutcome(outcome_, calls_, stderr_) ==
    [outcome |-> outcome_, calls |-> calls_, stderr |-> stderr_]

\* the summary written for the fallback as well
OnMissingFileLogged(callsSoFar) ==
    LoadOutcome(Returned(DEFAULT_TOOLS_CONFIG),
                Append(callsSoFar, Call("process.stderr.write", "")),
                << "  All features and tools enabled" >>)

\* if (!fs.existsSync(effectivePath)) return DEFAULT_TOOLS_CONFIG
OnMissingFile(callsSoFar) ==
    LoadOutcome(Returned(DEFAULT_TOOLS_CONFIG), callsSoFar, <<>>)

\* an exception in the try block reaches the catch block
OnException(error, issues, effectivePath, callsSoFar) ==
    LoadOutcome(Threw(Catch(error, issues, effectivePath)), callsSoFar, <<>>)

\* the summary is written, then parsedConfig is returned
OnParsed(parsedConfig, effectivePath, callsSoFar) ==
    LoadOutcome(Returned(parsedConfig),
                Append(callsSoFar, Call("process.stderr.write", "")),
                LogLines(effectivePath, parsedConfig))

\* loadToolsConfig(configPath), given the value of the environment variable
\* and what the file system answers: exists is the result of fs.existsSync,
\* read the answer to fs.readFileSync
LoadResult(configPath, envValue, exists, read) ==
    LET effectivePath == EffectivePath(configPath, envValue)
        c1 == << Call("fs.existsSync", effectivePath) >>
        c2 == Append(c1, Call("fs.readFileSync", effectivePath))
        c3 == Append(c2, Call("JSON.parse", ""))
        c4 == Append(c3, Call("ToolsConfigSchema.parse", ""))
    IN IF ~exists THEN OnMissingFile(c1)
       ELSE LET configContent == ReadFileSync(effectivePath, read)
            IN IF configContent.threw
               THEN OnException(configContent.error, <<>>, effectivePath, c2)
               ELSE LET rawConfig == JsonParse(configContent.text)
                    IN IF rawConfig.threw
                       THEN OnException(rawConfig.error, <<>>, effectivePath, c3)
                       ELSE LET parsed == ToolsConfigSchema(rawConfig.value)
                            IN IF ~parsed.ok
                               THEN OnException(ZodError, parsed.issues,
                                                effectivePath, c4)
                               ELSE OnParsed(parsed.value, effectivePath, c4)

(***************************************************************************)
(* The inputs the model draws.                                             *)
(***************************************************************************)
ArgValues == { Undefined, Str(""), Str("/path/to/config.json") }
EnvValues == { Undefined, Str(""), Str("/custom/path/config.json") }

FeatureValues == { JBool(TRUE), JBool(FALSE), JOther("string") }

FeatureEntriesSets ==
    UNION { [K -> FeatureValues] :
            K \in { S \in SUBSET Range(FeatureKeyOrder) :
                    Cardinality(S) <= MaxFeatureKeys } }

FeaturesValues ==
    { JFeaturesAbsent, JFeaturesOf("null") }
    \cup { JFeatures(e) : e \in FeatureEntriesSets }

DisabledItems == { JStr("trigger_pipeline"), JStr("unknown_tool"), JNum("5") }

DisabledValues ==
    { JDisabledAbsent, JDisabledOf("string") }
    \cup { JDisabled(items) : items \in SeqsUpTo(DisabledItems, MaxDisabled) }

ToolsValues ==
    { JToolsAbsent, JToolsOf("array") }
    \cup { JTools(d) : d \in DisabledValues }

Payloads ==
    { JValue("null"), JValue("array"), JValue("string") }
    \cup { JObject(f, t, x) :
           f \in FeaturesValues, t \in ToolsValues, x \in BOOLEAN }

Malformed ==
    [wellFormed |-> FALSE,
     syntaxMessage |-> "Unexpected token i in JSON at position 2",
     value |-> JValue("undefined")]
WellFormed(value) ==
    [wellFormed |-> TRUE, syntaxMessage |-> "", value |-> value]

Texts == { Malformed } \cup { WellFormed(v) : v \in Payloads }

ReadOk(text) == [ok |-> TRUE, code |-> "", text |-> text]
ReadFailed(code) == [ok |-> FALSE, code |-> code, text |-> Malformed]

ReadOutcomes ==
    { ReadFailed("EACCES"), ReadFailed("ENOENT") }
    \cup { ReadOk(t) : t \in Texts }

\* the tool names resolver calls are made with: registered tools of two
\* features, an unregistered name, and a name Object.prototype defines
QueryTools ==
    { "list_pipelines", "trigger_pipeline", "get_wiki_page", "get_me",
      "unknown_tool", "constructor" }
QueryFeatures == { "pipelines", "wikis", "users" }
ListTools == { "trigger_pipeline", "get_wiki_page" }
CandidateLists == SeqsUpTo(ListTools, MaxList)

(***************************************************************************)
(* Configuration objects.  A ToolsConfig is a JavaScript object: callers   *)
(* hold references to it, and what a reference denotes is whatever the     *)
(* object holds when it is read.  heap[ref] is the object's content.       *)
(***************************************************************************)
\* number of calls of loadToolsConfig that return, in the concurrent runs
MaxReloads == 2
\* number of callers of the resolver, in the concurrent runs
MaxCallers == 2

Callers == 1..MaxCallers

\* the reference of the module-level object DEFAULT_TOOLS_CONFIG
DefaultRef == 1

\* the objects alive once the module is loaded
InitialHeap == << DEFAULT_TOOLS_CONFIG >>

\* loadToolsConfig writes the parsed file into the default object and
\* returns that one object: Object.assign(DEFAULT_TOOLS_CONFIG, parsedConfig)
ReturnedObjectMergedIntoDefault(store, exists, config) ==
    IF ~exists
    THEN [heap |-> store, ref |-> DefaultRef]
    ELSE [heap |-> [store EXCEPT ![DefaultRef] = config], ref |-> DefaultRef]

\* the object a returning loadToolsConfig hands back, and the heap after
\* it: DEFAULT_TOOLS_CONFIG itself when the file does not exist, else the
\* object ToolsConfigSchema.parse has just built
ReturnedObject(store, exists, config) ==
    IF ~exists
    THEN [heap |-> store, ref |-> DefaultRef]
    ELSE [heap |-> Append(store, config), ref |-> Len(store) + 1]

NoAnswer ==
    [caller |-> 0, fn |-> "none", name |-> "", list |-> <<>>,
     ref |-> DefaultRef, seen |-> 0, bool |-> FALSE, out |-> <<>>]

\* the path the reloads are made with, and the files they find
ReloadPath == Str("/path/to/config.json")

ReloadPayloads ==
    { JObject(JFeaturesAbsent, JToolsAbsent, FALSE),
      JObject(JFeatures([k \in {"pipelines"} |-> JBool(FALSE)]), JToolsAbsent, FALSE),
      JObject(JFeaturesAbsent,
              JTools(JDisabled(<< JStr("trigger_pipeline") >>)), FALSE) }

ReloadReads ==
    { ReadFailed("EACCES") } \cup { ReadOk(WellFormed(v)) : v \in ReloadPayloads }

\* what the callers ask
CallerFeatures == { "pipelines" }
CallerTools == { "trigger_pipeline", "get_me" }
CallerLists == { << "list_pipelines", "trigger_pipeline", "get_wiki_page" >> }

(***************************************************************************)
(* updatePullRequestComment.  An error value carries its class, its        *)
(* message and the place that constructed it, so that "the same error" and *)
(* "a new error with the same text" differ; a thrown string has class      *)
(* "string" and its text as message.                                       *)
(***************************************************************************)
Thrown(class, message, origin) ==
    [class |-> class, message |-> message, origin |-> origin]

NothingThrown == Thrown("none", "", "")

\* error instanceof AzureDevOpsError
InstanceOfAzureDevOpsError(error) == error.class = "AzureDevOpsError"

\* error instanceof Error: AzureDevOpsError is a subclass of Error
InstanceOfError(error) == error.class \in { "Error", "AzureDevOpsError" }

\* String(error), for a thrown value that is not an Error
StringOf(error) == error.message

\* a Comment of the git API, or null / undefined in its place
Comment(id, content, commentType) ==
    [type |-> "object", id |-> id, content |-> content,
     commentType |-> commentType]
NullComment == [type |-> "null", id |-> 0, content |-> "", commentType |-> ""]
UndefinedComment ==
    [type |-> "undefined", id |-> 0, content |-> "", commentType |-> ""]

\* !updatedComment
Falsy(comment) == comment.type \in { "null", "undefined" }

\* transformCommentType: CommentType.Text becomes 'text'
transformCommentType(commentType) ==
    IF commentType = "CommentType.Text" THEN "text" ELSE commentType

\* how a call of updatePullRequestComment ends
Pending == [kind |-> "pending", comment |-> NullComment, error |-> NothingThrown]
Resolved(comment) ==
    [kind |-> "resolved", comment |-> comment, error |-> NothingThrown]
Rejected(error) ==
    [kind |-> "rejected", comment |-> NullComment, error |-> error]

FailedToUpdate == "Failed to update pull request comment"

\* the catch block: an AzureDevOpsError is rethrown, anything else is
\* wrapped in a new Error
Caught(error) ==
    IF InstanceOfAzureDevOpsError(error)
    THEN Rejected(error)
    ELSE Rejected(Thrown("Error",
                         FailedToUpdate \o ": "
                           \o (IF InstanceOfError(error) THEN error.message
                               ELSE StringOf(error)),
                         "updatePullRequestComment"))

\* the try block after updateComment has returned updatedComment: the throw
\* for a missing comment happens inside the try, so the catch block gets it
AfterUpdateComment(updatedComment) ==
    IF Falsy(updatedComment)
    THEN Caught(Thrown("Error", FailedToUpdate, "updatePullRequestComment"))
    ELSE Resolved([updatedComment EXCEPT
                     !.commentType = transformCommentType(@)])

\* a promise of the connection or of the git API, settled
Fulfilled(value) == [ok |-> TRUE, value |-> value, error |-> NothingThrown]
Failed(error) == [ok |-> FALSE, value |-> NullComment, error |-> error]
Unsettled == [ok |-> FALSE, value |-> NullComment, error |-> NothingThrown]

NoArgs ==
    [projectId |-> "", repositoryId |-> "", pullRequestId |-> 0,
     threadId |-> 0, commentId |-> 0, content |-> ""]

\* the arguments gitApi.updateComment is called with, in its parameters' order
UpdateCommentArgs(a) ==
    [comment |-> [content |-> a.content], repositoryId |-> a.repositoryId,
     pullRequestId |-> a.pullRequestId, threadId |-> a.threadId,
     commentId |-> a.commentId, project |-> a.projectId]

NoUpdateCommentArgs == UpdateCommentArgs(NoArgs)

NotStarted ==
    [pc |-> "idle", args |-> NoArgs,
     getGitApiCalls |-> 0, updateCommentCalls |-> 0,
     calledWith |-> NoUpdateCommentArgs,
     gitApi |-> Unsettled, updatedComment |-> Unsettled,
     result |-> Pending]

\* the calls made and what the mocks answer
PullRequestIds == { 123, 7 }
CommentIds == { 101, 5 }
Contents == { "Updated comment content", "" }

CallArgs ==
    { [projectId |-> "test-project", repositoryId |-> "test-repo",
       pullRequestId |-> p, threadId |-> 456, commentId |-> c, content |-> t] :
      p \in PullRequestIds, c \in CommentIds, t \in Contents }

Messages == { "Custom error", "API connection failed", "" }

Rejections(origin) ==
    { Thrown(class, m, origin) :
      class \in { "AzureDevOpsError", "Error", "string" }, m \in Messages }

GitApi == Comment(0, "gitApi", "")

GetGitApiAnswers ==
    { Fulfilled(GitApi) } \cup { Failed(e) : e \in Rejections("getGitApi") }

UpdateCommentAnswers ==
    { Fulfilled(Comment(101, "Updated comment content", "CommentType.Text")),
      Fulfilled(Comment(5, "", "CommentType.Text")),
      Fulfilled(NullComment), Fulfilled(UndefinedComment) }
    \cup { Failed(e) : e \in Rejections("updateComment") }

(***************************************************************************)
(* The state machine: the process loads its configuration once, then the   *)
(* tool-dispatch layer queries the resolver with the configuration loaded. *)
(***************************************************************************)
NoQuery == [fn |-> "none", name |-> "", list |-> <<>>, bool |-> FALSE, out |-> <<>>]

Init ==
    /\ env \in EnvValues
    /\ arg = Undefined
    /\ fsAnswer = [exists |-> FALSE, read |-> ReadFailed("")]
    /\ outcome = NotCalled
    /\ calls = <<>>
    /\ stderr = <<>>
    /\ query = NoQuery
    /\ heap = InitialHeap
    /\ returned = <<>>
    /\ lastAnswer = NoAnswer
    /\ pr = NotStarted

LoadToolsConfig ==
    /\ outcome.kind = "none"
    /\ \E configPath \in ArgValues, exists \in BOOLEAN, read \in ReadOutcomes :
          LET r == LoadResult(configPath, env, exists, read)
          IN /\ outcome' = r.outcome
             /\ calls' = r.calls
             /\ stderr' = r.stderr
             /\ arg' = configPath
             /\ fsAnswer' = [exists |-> exists,
                             read |-> IF exists THEN read ELSE ReadFailed("")]
    /\ UNCHANGED <<env, query, heap, returned, lastAnswer, pr>>

\* A resolver call reads the configuration loaded and nothing else; the model
\* observes one call per run, which covers every call made with that
\* configuration.
CanQuery == outcome.kind = "returned" /\ query.fn = "none"

IsFeatureEnabled(featureName) ==
    /\ CanQuery
    /\ query' = [fn |-> "isFeatureEnabled", name |-> featureName, list |-> <<>>,
                 bool |-> isFeatureEnabled(featureName, outcome.config),
                 out |-> <<>>]
    /\ UNCHANGED <<env, arg, fsAnswer, outcome, calls, stderr,
                   heap, returned, lastAnswer, pr>>

IsToolEnabled(toolName) ==
    /\ CanQuery
    /\ query' = [fn |-> "isToolEnabled", name |-> toolName, list |-> <<>>,
                 bool |-> isToolEnabled(toolName, outcome.config),
                 out |-> <<>>]
    /\ UNCHANGED <<env, arg, fsAnswer, outcome, calls, stderr,
                   heap, returned, lastAnswer, pr>>

GetEnabledTools(allToolNames) ==
    /\ CanQuery
    /\ query' = [fn |-> "getEnabledTools", name |-> "", list |-> allToolNames,
                 bool |-> FALSE,
                 out |-> getEnabledTools(allToolNames, outcome.config)]
    /\ UNCHANGED <<env, arg, fsAnswer, outcome, calls, stderr,
                   heap, returned, lastAnswer, pr>>

GetDisabledTools(allToolNames) ==
    /\ CanQuery
    /\ query' = [fn |-> "getDisabledTools", name |-> "", list |-> allToolNames,
                 bool |-> FALSE,
                 out |-> getDisabledTools(allToolNames, outcome.config)]
    /\ UNCHANGED <<env, arg, fsAnswer, outcome, calls, stderr,
                   heap, returned, lastAnswer, pr>>

Next ==
    \/ LoadToolsConfig
    \/ \E f \in QueryFeatures : IsFeatureEnabled(f)
    \/ \E t \in QueryTools : IsToolEnabled(t)
    \/ \E l \in CandidateLists : GetEnabledTools(l)
    \/ \E l \in CandidateLists : GetDisabledTools(l)

Spec == Init /\ [][Next]_vars

(***************************************************************************)
(* Several callers and reloads.  Every function of the module is           *)
(* synchronous, so a call runs to completion and calls interleave as       *)
(* wholes: any caller may query with any configuration object it can hold  *)
(* (the exported default, or one a load returned), before or after any     *)
(* later reload.                                                           *)
(***************************************************************************)
InitConcurrent ==
    /\ env = Undefined
    /\ arg = Undefined
    /\ fsAnswer = [exists |-> FALSE, read |-> ReadFailed("")]
    /\ outcome = NotCalled
    /\ calls = <<>>
    /\ stderr = <<>>
    /\ query = NoQuery
    /\ heap = InitialHeap
    /\ returned = <<>>
    /\ lastAnswer = NoAnswer
    /\ pr = NotStarted

ReloadToolsConfig ==
    /\ Len(returned) < MaxReloads
    /\ \E exists \in BOOLEAN, read \in ReloadReads :
          LET r == LoadResult(ReloadPath, env, exists, read)
              o == ReturnedObject(heap, exists, r.outcome.config)
          IN /\ outcome' = r.outcome
             /\ calls' = r.calls
             /\ stderr' = r.stderr
             /\ arg' = ReloadPath
             /\ fsAnswer' = [exists |-> exists,
                             read |-> IF exists THEN read ELSE ReadFailed("")]
             /\ IF r.outcome.kind = "returned"
                THEN /\ heap' = o.heap
                     /\ returned' = Append(returned,
                                           [ref |-> o.ref,
                                            config |-> r.outcome.config])
                ELSE UNCHANGED <<heap, returned>>
    /\ UNCHANGED <<env, query, lastAnswer, pr>>

\* the record of a resolver call: its caller, its arguments (config by
\* reference), the number of loads that had returned when it ran, its result
Answer(c, fn, name, list, ref, bool, out) ==
    [caller |-> c, fn |-> fn, name |-> name, list |-> list, ref |-> ref,
     seen |-> Len(returned), bool |-> bool, out |-> out]

CallIsFeatureEnabled(c, ref, featureName) ==
    /\ lastAnswer' = Answer(c, "isFeatureEnabled", featureName, <<>>, ref,
                        isFeatureEnabled(featureName, heap[ref]), <<>>)
    /\ UNCHANGED <<env, arg, fsAnswer, outcome, calls, stderr, query,
                   heap, returned, pr>>

CallIsToolEnabled(c, ref, toolName) ==
    /\ lastAnswer' = Answer(c, "isToolEnabled", toolName, <<>>, ref,
                        isToolEnabled(toolName, heap[ref]), <<>>)
    /\ UNCHANGED <<env, arg, fsAnswer, outcome, calls, stderr, query,
                   heap, returned, pr>>

CallGetEnabledTools(c, ref, allToolNames) ==
    /\ lastAnswer' = Answer(c, "getEnabledTools", "", allToolNames, ref, FALSE,
                        getEnabledTools(allToolNames, heap[ref]))
    /\ UNCHANGED <<env, arg, fsAnswer, outcome, calls, stderr, query,
                   heap, returned, pr>>

CallGetDisabledTools(c, ref, allToolNames) ==
    /\ lastAnswer' = Answer(c, "getDisabledTools", "", allToolNames, ref, FALSE,
                        getDisabledTools(allToolNames, heap[ref]))
    /\ UNCHANGED <<env, arg, fsAnswer, outcome, calls, stderr, query,
                   heap, returned, pr>>

NextConcurrent ==
    \/ ReloadToolsConfig
    \/ \E c \in Callers, ref \in DOMAIN heap, f \in CallerFeatures :
          CallIsFeatureEnabled(c, ref, f)
    \/ \E c \in Callers, ref \in DOMAIN heap, t \in CallerTools :
          CallIsToolEnabled(c, ref, t)
    \/ \E c \in Callers, ref \in DOMAIN heap, l \in CallerLists :
          CallGetEnabledTools(c, ref, l)
    \/ \E c \in Callers, ref \in DOMAIN heap, l \in CallerLists :
          CallGetDisabledTools(c, ref, l)

SpecConcurrent == InitConcurrent /\ [][NextConcurrent]_vars

(***************************************************************************)
(* One call of updatePullRequestComment, from await to await.              *)
(***************************************************************************)
InitPullRequest == InitConcurrent

\* the call starts: connection.getGitApi() is called and awaited
UpdatePullRequestComment(a) ==
    /\ pr.pc = "idle"
    /\ pr' = [pr EXCEPT !.pc = "await getGitApi", !.args = a,
                        !.getGitApiCalls = @ + 1]
    /\ UNCHANGED <<env, arg, fsAnswer, outcome, calls, stderr, query,
                   heap, returned, lastAnswer>>

\* getGitApi settles: updateComment is called and awaited, or the catch
\* block ends the call
GetGitApiSettles(answer) ==
    /\ pr.pc = "await getGitApi"
    /\ pr' = IF answer.ok
             THEN [pr EXCEPT !.pc = "await updateComment", !.gitApi = answer,
                             !.updateCommentCalls = @ + 1,
                             !.calledWith = UpdateCommentArgs(pr.args)]
             ELSE [pr EXCEPT !.pc = "settled", !.gitApi = answer,
                             !.result = Caught(answer.error)]
    /\ UNCHANGED <<env, arg, fsAnswer, outcome, calls, stderr, query,
                   heap, returned, lastAnswer>>

\* updateComment settles: the call resolves or rejects
UpdateCommentSettles(answer) ==
    /\ pr.pc = "await updateComment"
    /\ pr' = [pr EXCEPT !.pc = "settled", !.updatedComment = answer,
                        !.result = IF answer.ok
                                   THEN AfterUpdateComment(answer.value)
                                   ELSE Caught(answer.error)]
    /\ UNCHANGED <<env, arg, fsAnswer, outcome, calls, stderr, query,
                   heap, returned, lastAnswer>>

NextPullRequest ==
    \/ \E a \in CallArgs : UpdatePullRequestComment(a)
    \/ \E answer \in GetGitApiAnswers : GetGitApiSettles(answer)
    \/ \E answer \in UpdateCommentAnswers : UpdateCommentSettles(answer)

SpecPullRequest == InitPullRequest /\ [][NextPullRequest]_vars

(***************************************************************************)
(* Properties of the resolver and the catalog.                             *)
(***************************************************************************)
\* every tool of the catalog
CatalogTools == UNION { Range(FEATURE_TOOLS[f]) : f \in DOMAIN FEATURE_TOOLS }

\* the tool names the properties range over: the catalog, names it does not
\* hold, names Object.prototype defines, and the empty name
ToolNames ==
    CatalogTools \cup ObjectPrototypeKeys \cup { "unknown_tool", "get_pipelines", "" }

Loaded == outcome.kind = "returned"

\* the features whose tool list holds t
OwnersOf(t) == { f \in Range(FEATURE_NAMES) : t \in Range(FEATURE_TOOLS[f]) }

\* the verdict the contract gives for tool t under configuration c
ToolVerdict(t, c) ==
    ~ \/ /\ t \in DOMAIN TOOL_TO_FEATURE
         /\ TOOL_TO_FEATURE[t] \in DOMAIN c.features
         /\ c.features[TOOL_TO_FEATURE[t]] = FALSE
      \/ \E i \in DOMAIN c.tools.disabled : c.tools.disabled[i] = t

\* C1: isToolEnabled(t, c) is false exactly when t has an owning feature in
\* TOOL_TO_FEATURE that is disabled under c, or t is listed in
\* c.tools.disabled; otherwise it is true.  In particular a tool of no feature
\* that is not listed is enabled.
C1_IsToolEnabledContract ==
    Loaded =>
        /\ \A t \in ToolNames :
              isToolEnabled(t, outcome.config) = ToolVerdict(t, outcome.config)
        /\ \A t \in ToolNames \ CatalogTools :
              t \notin Range(outcome.config.tools.disabled)
                  => isToolEnabled(t, outcome.config)
        /\ query.fn = "isToolEnabled"
              => query.bool = ToolVerdict(query.name, outcome.config)

\* an unregistered tool was found enabled although another tool is listed in
\* tools.disabled and a feature is disabled
C1_Witness ==
    /\ Loaded
    /\ query.fn = "isToolEnabled"
    /\ query.name = "constructor"
    /\ query.bool
    /\ outcome.config.tools.disabled = << "unknown_tool" >>
    /\ "pipelines" \in DOMAIN outcome.config.features
    /\ ~outcome.config.features["pipelines"]

\* C2: when c.features[f] = false, every tool of FEATURE_TOOLS[f] is disabled,
\* whatever tools.disabled and the overrides of the other features hold.
C2_DisabledFeatureDisablesItsTools ==
    Loaded =>
        \A f \in Range(FEATURE_NAMES) :
            (f \in DOMAIN outcome.config.features /\ ~outcome.config.features[f])
                => /\ \A t \in Range(FEATURE_TOOLS[f]) :
                         ~isToolEnabled(t, outcome.config)
                   /\ (query.fn = "isToolEnabled"
                       /\ query.name \in Range(FEATURE_TOOLS[f]))
                         => ~query.bool

\* a tool of the disabled feature pipelines was queried while the other feature
\* is explicitly enabled and tools.disabled names other tools only
C2_Witness ==
    /\ Loaded
    /\ query.fn = "isToolEnabled"
    /\ query.name = "list_pipelines"
    /\ ~query.bool
    /\ DOMAIN outcome.config.features = { "pipelines", "wikis" }
    /\ ~outcome.config.features["pipelines"]
    /\ outcome.config.features["wikis"]
    /\ outcome.config.tools.disabled = << "unknown_tool" >>

\* the configuration that differs from c only by t added to tools.disabled
WithDisabled(c, t) == [c EXCEPT !.tools.disabled = Append(@, t)]

\* C3: adding tool t to tools.disabled makes isToolEnabled false for t and
\* leaves isToolEnabled of every other tool, the siblings of t's feature
\* included, and isFeatureEnabled of every feature as they were.
C3_ToolDisablementIsLocal ==
    (Loaded /\ query.fn = "isToolEnabled") =>
        LET t == query.name
            c == outcome.config
            c2 == WithDisabled(c, t)
        IN /\ ~isToolEnabled(t, c2)
           /\ \A u \in ToolNames \ {t} :
                 isToolEnabled(u, c2) = isToolEnabled(u, c)
           /\ \A f \in Range(FEATURE_NAMES) :
                 isFeatureEnabled(f, c2) = isFeatureEnabled(f, c)

\* trigger_pipeline is enabled, and disabling it leaves its sibling
\* list_pipelines enabled
C3_Witness ==
    /\ Loaded
    /\ query.fn = "isToolEnabled"
    /\ query.name = "trigger_pipeline"
    /\ query.bool
    /\ ~isToolEnabled("trigger_pipeline",
                      WithDisabled(outcome.config, "trigger_pipeline"))
    /\ isToolEnabled("list_pipelines",
                     WithDisabled(outcome.config, "trigger_pipeline"))

\* the configuration c without the override of feature f
WithoutOverride(c, f) ==
    [c EXCEPT !.features = [k \in DOMAIN c.features \ {f} |-> c.features[k]]]

\* C4: isFeatureEnabled(f, c) is c.features[f] when the key is present and true
\* when it is absent; every feature is enabled under the default
\* configuration; an override of true cannot be told from no override.
C4_IsFeatureEnabledContract ==
    Loaded =>
        LET c == outcome.config
        IN /\ \A f \in Range(FEATURE_NAMES) :
                 /\ f \in DOMAIN c.features
                       => isFeatureEnabled(f, c) = c.features[f]
                 /\ f \notin DOMAIN c.features => isFeatureEnabled(f, c)
                 /\ isFeatureEnabled(f, DEFAULT_TOOLS_CONFIG)
           /\ \A f \in DOMAIN c.features :
                 c.features[f]
                    => /\ \A g \in Range(FEATURE_NAMES) :
                             isFeatureEnabled(g, WithoutOverride(c, f))
                                 = isFeatureEnabled(g, c)
                       /\ \A t \in Range(FEATURE_TOOLS[f]) :
                             isToolEnabled(t, WithoutOverride(c, f))
                                 = isToolEnabled(t, c)
           /\ query.fn = "isFeatureEnabled"
                 => query.bool = (IF query.name \in DOMAIN c.features
                                  THEN c.features[query.name] ELSE TRUE)

\* a feature with the override false was queried, while another feature has
\* the override true
C4_Witness ==
    /\ Loaded
    /\ query.fn = "isFeatureEnabled"
    /\ query.name = "wikis"
    /\ ~query.bool
    /\ DOMAIN outcome.config.features = { "pipelines", "wikis" }
    /\ outcome.config.features["pipelines"]

\* L is split into E and D position by position: each element of L is the
\* next element of E when it is enabled under c and the next element of D
\* when it is not, and nothing else is in E or D
RECURSIVE SplitsInto(_, _, _, _)
SplitsInto(L, E, D, c) ==
    IF L = <<>> THEN E = <<>> /\ D = <<>>
    ELSE IF ToolVerdict(Head(L), c)
    THEN E # <<>> /\ Head(E) = Head(L) /\ SplitsInto(Tail(L), Tail(E), D, c)
    ELSE D # <<>> /\ Head(D) = Head(L) /\ SplitsInto(Tail(L), E, Tail(D), c)

\* C5: getEnabledTools(L, c) and getDisabledTools(L, c) partition L: each is
\* the subsequence of L, in L's order, of the enabled (disabled) elements,
\* every position of L is in exactly one of them, their union is L and no
\* tool name is in both.
C5_EnabledDisabledPartition ==
    (Loaded /\ query.fn \in {"getEnabledTools", "getDisabledTools"}) =>
        LET c == outcome.config
            L == query.list
            E == getEnabledTools(L, c)
            D == getDisabledTools(L, c)
        IN /\ query.out = (IF query.fn = "getEnabledTools" THEN E ELSE D)
           /\ SplitsInto(L, E, D, c)
           /\ Len(E) + Len(D) = Len(L)
           /\ Range(E) \cup Range(D) = Range(L)
           /\ Range(E) \cap Range(D) = {}
           /\ \A t \in Range(E) : isToolEnabled(t, c)
           /\ \A t \in Range(D) : ~isToolEnabled(t, c)

\* a list with a duplicate and both an enabled and a disabled tool was split
C5_Witness ==
    /\ Loaded
    /\ query.fn = "getDisabledTools"
    /\ Len(query.list) = MaxList
    /\ Range(query.list) = { "trigger_pipeline", "get_wiki_page" }
    /\ query.out = << "trigger_pipeline" >>
    /\ getEnabledTools(query.list, outcome.config) = << "get_wiki_page" >>

\* the catalog as built: a list for each feature, the lists pairwise disjoint
\* and free of duplicates, the reverse index holding each tool under the
\* feature that lists it
CatalogWellFormed ==
    /\ DOMAIN FEATURE_TOOLS = Range(FEATURE_NAMES)
    /\ \A i, j \in DOMAIN FEATURE_NAMES :
          i # j => FEATURE_NAMES[i] # FEATURE_NAMES[j]
    /\ \A f, g \in Range(FEATURE_NAMES) :
          f # g => Range(FEATURE_TOOLS[f]) \cap Range(FEATURE_TOOLS[g]) = {}
    /\ \A f \in Range(FEATURE_NAMES) :
          Cardinality(Range(FEATURE_TOOLS[f])) = Len(FEATURE_TOOLS[f])
    /\ DOMAIN TOOL_TO_FEATURE = CatalogTools
    /\ \A t \in ToolNames, f \in Range(FEATURE_NAMES) :
          (ToolToFeatureGet(t) = [t |-> "string", s |-> f])
              <=> t \in Range(FEATURE_TOOLS[f])
    /\ \A t \in ToolNames \ CatalogTools :
          /\ t \notin DOMAIN TOOL_TO_FEATURE
          /\ ToolToFeatureGet(t).t # "string"

\* C6: every feature of FEATURE_NAMES has a tool list, the lists of distinct
\* features are pairwise disjoint and hold no duplicate, and TOOL_TO_FEATURE
\* maps tool t to feature f exactly when t is in FEATURE_TOOLS[f]; a tool in
\* no list has no owning feature.  The last two are stated of the tool a
\* resolver call looked up as well.
C6_CatalogInvariant ==
    /\ CatalogWellFormed
    /\ query.fn = "isToolEnabled" =>
          LET owner == ToolToFeatureGet(query.name)
          IN /\ Cardinality(OwnersOf(query.name)) <= 1
             /\ \A f \in Range(FEATURE_NAMES) :
                   (owner = [t |-> "string", s |-> f]) <=> f \in OwnersOf(query.name)
             /\ OwnersOf(query.name) = {} => owner.t # "string"

\* the reverse index was read for a registered tool, and holds one key for
\* each entry of the nine tool lists
C6_Witness ==
    /\ query.fn = "isToolEnabled"
    /\ query.name = "trigger_pipeline"
    /\ ToolToFeatureGet(query.name) = [t |-> "string", s |-> "pipelines"]
    /\ Cardinality(DOMAIN TOOL_TO_FEATURE) = 44
    /\ Cardinality(OwnersOf("trigger_pipeline")) = 1

(***************************************************************************)
(* Properties of the loader and the schema.                                *)
(***************************************************************************)
Called == outcome.kind # "none"

DefaultPath == "/work/tools.config.json"

\* the operations of the calls made, in order
RECURSIVE Ops(_)
Ops(cs) == IF cs = <<>> THEN <<>> ELSE << Head(cs).op >> \o Ops(Tail(cs))

\* error e names path p: in the message the loader builds, or in the
\* message of the file system's error
NamesPath(e, p) ==
    /\ e.message # <<>>
    /\ \/ \E m \in { "Unexpected token i in JSON at position 2" } :
             e.message[1] = "Invalid JSON in tools config file at " \o p \o ": " \o m
       \/ e.message[1] = "Invalid tools config file at " \o p \o ":"
       \/ \E code \in { "EACCES", "ENOENT" } :
             e.message[1] = code \o ": open '" \o p \o "'"

\* the path is used for the existence check, the read and the error
UsesPath(p) ==
    /\ calls # <<>>
    /\ calls[1] = Call("fs.existsSync", p)
    /\ Len(calls) >= 2 => calls[2] = Call("fs.readFileSync", p)
    /\ \A i \in DOMAIN calls : i > 2 => calls[i].path = ""
    /\ outcome.kind = "threw" => NamesPath(outcome.error, p)

\* C7, as stated: the path is the argument whenever one is supplied, else the
\* environment variable whenever it is set, else tools.config.json in the
\* working directory.
C7_AsStated ==
    Called =>
        UsesPath(IF arg.t = "string" THEN arg.s
                 ELSE IF env.t = "string" THEN env.s
                 ELSE DefaultPath)

\* C7, amended: the path is the argument whenever a non-empty one is
\* supplied, else the environment variable whenever it is set to a non-empty
\* value, else tools.config.json in the working directory; that path is the
\* one checked for existence, read, and named in the error raised.
C7_PathResolution ==
    Called =>
        UsesPath(IF arg.t = "string" /\ arg.s # "" THEN arg.s
                 ELSE IF env.t = "string" /\ env.s # "" THEN env.s
                 ELSE DefaultPath)

\* a path was supplied while the environment variable names another file:
\* the file read, and found malformed, is the one supplied
C7_Witness ==
    /\ arg = Str("/path/to/config.json")
    /\ env = Str("/custom/path/config.json")
    /\ Len(calls) = 3
    /\ calls[2] = Call("fs.readFileSync", "/path/to/config.json")
    /\ outcome.kind = "threw"
    /\ outcome.error.message
         = << "Invalid JSON in tools config file at /path/to/config.json: "
              \o "Unexpected token i in JSON at position 2" >>

\* C8: when the resolved path does not exist, loadToolsConfig returns the
\* default configuration (no override, nothing listed), under which every
\* feature and tool is enabled; it raises nothing, makes no read, parse or
\* validation and writes no summary.
C8_MissingFileYieldsDefault ==
    (Called /\ ~fsAnswer.exists) =>
        /\ outcome.kind = "returned"
        /\ outcome.error = NoError
        /\ DOMAIN outcome.config.features = {}
        /\ outcome.config.tools.disabled = <<>>
        /\ \A f \in Range(FEATURE_NAMES) : isFeatureEnabled(f, outcome.config)
        /\ \A t \in ToolNames : isToolEnabled(t, outcome.config)
        /\ Ops(calls) = << "fs.existsSync" >>
        /\ stderr = <<>>

\* the file named by the environment variable is missing, and a tool was then
\* found enabled under the configuration returned
C8_Witness ==
    /\ Called
    /\ ~fsAnswer.exists
    /\ arg = Undefined
    /\ calls = << Call("fs.existsSync", "/custom/path/config.json") >>
    /\ query.fn = "isToolEnabled"
    /\ query.name = "trigger_pipeline"
    /\ query.bool

\* what the schema requires of a payload, stated on the payload: the values
\* that break it, each as [path, expected, received] with its dotted path,
\* what was expected there and what was found
Violation(path, expected, received) ==
    [path |-> path, expected |-> expected, received |-> received]

Violations(raw) ==
    IF raw.type # "object" THEN { Violation("", "object", raw.type) }
    ELSE
      (IF raw.features.type \in { "undefined", "object" } THEN {}
       ELSE { Violation("features", "object", raw.features.type) })
      \cup { Violation("features." \o k, "feature name", k) :
             k \in { x \in DOMAIN raw.features.entries :
                     x \notin Range(FEATURE_NAMES) } }
      \cup { Violation("features." \o k, "boolean", raw.features.entries[k].type) :
             k \in { x \in DOMAIN raw.features.entries :
                     raw.features.entries[x].type # "boolean" } }
      \cup (IF raw.tools.type \in { "undefined", "object" } THEN {}
            ELSE { Violation("tools", "object", raw.tools.type) })
      \cup (IF raw.tools.disabled.type \in { "undefined", "array" } THEN {}
            ELSE { Violation("tools.disabled", "array", raw.tools.disabled.type) })
      \cup { Violation("tools.disabled." \o ToString(i - 1), "string",
                       raw.tools.disabled.items[i].type) :
             i \in { j \in DOMAIN raw.tools.disabled.items :
                     raw.tools.disabled.items[j].type # "string" } }

\* 'users' | 'organizations' | ... , the feature names as a message lists them
FeatureNamesListed ==
    "'users' | 'organizations' | 'projects' | 'repositories' | 'work-items' | "
    \o "'search' | 'pull-requests' | 'pipelines' | 'wikis'"

\* the line that reports violation v: its dotted path, then the message
ViolationLine(v) ==
    "  - " \o v.path \o ": "
    \o (IF v.expected = "feature name"
        THEN "Invalid enum value. Expected " \o FeatureNamesListed
             \o ", received '" \o v.received \o "'"
        ELSE "Expected " \o v.expected \o ", received " \o v.received)

\* the lines report every violation of raw, each once, and nothing else
ReportsEachOnce(lines, raw) ==
    /\ Len(lines) = Cardinality(Violations(raw))
    /\ Range(lines) = { ViolationLine(v) : v \in Violations(raw) }

FileRead == Called /\ fsAnswer.exists /\ fsAnswer.read.ok
FileParsed == FileRead /\ fsAnswer.read.text.wellFormed

\* C9: when the file exists, a failing load yields no configuration: a JSON
\* syntax error fails with an error carrying the path and the parser's
\* message, a schema violation with an error carrying the path and one line
\* (dotted path and message) per issue, any other failure of the read is
\* thrown as it is; a configuration is returned only after the read, the
\* parse and the validation succeeded, in that order.
C9_FailingLoadAborts ==
    (Called /\ fsAnswer.exists) =>
        LET p == calls[1].path
            read == fsAnswer.read
            raw == read.text.value
        IN /\ ~read.ok =>
                /\ outcome = Threw(FsError(read.code, p))
                /\ Ops(calls) = << "fs.existsSync", "fs.readFileSync" >>
           /\ (read.ok /\ ~read.text.wellFormed) =>
                /\ outcome.kind = "threw"
                /\ outcome.error.name = "Error"
                /\ outcome.error.message
                     = << "Invalid JSON in tools config file at " \o p \o ": "
                          \o read.text.syntaxMessage >>
                /\ Ops(calls) = << "fs.existsSync", "fs.readFileSync", "JSON.parse" >>
           /\ (FileParsed /\ Violations(raw) # {}) =>
                /\ outcome.kind = "threw"
                /\ outcome.error.name = "Error"
                /\ outcome.error.message[1]
                     = "Invalid tools config file at " \o p \o ":"
                /\ ReportsEachOnce(Tail(outcome.error.message), raw)
                /\ Ops(calls) = << "fs.existsSync", "fs.readFileSync", "JSON.parse",
                                   "ToolsConfigSchema.parse" >>
           /\ outcome.kind = "threw" =>
                /\ stderr = <<>>
                /\ ~read.ok \/ ~read.text.wellFormed \/ Violations(raw) # {}
           /\ outcome.kind = "returned" =>
                /\ read.ok /\ read.text.wellFormed /\ Violations(raw) = {}
                /\ Ops(calls) = << "fs.existsSync", "fs.readFileSync", "JSON.parse",
                                   "ToolsConfigSchema.parse", "process.stderr.write" >>

\* a file with an unknown feature key and a non-string entry of disabled was
\* rejected with one line for each
C9_Witness ==
    /\ Called
    /\ fsAnswer.exists
    /\ outcome.kind = "threw"
    /\ Len(outcome.error.message) = 3
    /\ outcome.error.message[1]
         = "Invalid tools config file at /path/to/config.json:"
    /\ outcome.error.message[3]
         = "  - tools.disabled.1: Expected string, received number"
    /\ \E v \in Violations(fsAnswer.read.text.value) :
          v.expected = "feature name"

\* the configuration a payload that meets the schema denotes: its features
\* and tools.disabled, an absent one as {} and []
Normalized(raw) ==
    [features |-> IF raw.features.type = "undefined" THEN NoFeatures
                  ELSE [k \in DOMAIN raw.features.entries |->
                           raw.features.entries[k].b],
     tools |-> [disabled |->
                  IF raw.tools.type = "undefined"
                     \/ raw.tools.disabled.type = "undefined"
                  THEN <<>>
                  ELSE [i \in DOMAIN raw.tools.disabled.items |->
                           raw.tools.disabled.items[i].s]]]

\* the keys of features and the entries of tools.disabled are as claim C10
\* requires
KeysAndEntriesValid(raw) ==
    /\ \A k \in DOMAIN raw.features.entries :
          k \in Range(FEATURE_NAMES) /\ raw.features.entries[k].type = "boolean"
    /\ raw.tools.disabled.type \in { "undefined", "array" }
    /\ \A i \in DOMAIN raw.tools.disabled.items :
          raw.tools.disabled.items[i].type = "string"

\* C10, as stated: the payload is accepted exactly when every key of features
\* (if present) is a feature name with a boolean value and tools.disabled (if
\* present) is an array of strings; the result is then the payload normalized.
C10_AsStated ==
    FileParsed =>
        LET raw == fsAnswer.read.text.value
        IN /\ (outcome.kind = "returned") <=> KeysAndEntriesValid(raw)
           /\ outcome.kind = "returned" => outcome.config = Normalized(raw)

\* C10, amended: the payload is accepted exactly when it is an object,
\* features (if present) is an object whose every key is a feature name with
\* a boolean value, tools (if present) is an object and tools.disabled (if
\* present) is an array of strings; names in disabled are not checked against
\* the catalog; on success the result holds features and tools.disabled of
\* the payload, an absent one as {} and [], and no key the schema does not
\* name; on failure the issues list every violation, each once and with the
\* path of the offending value.
C10_SchemaContract ==
    FileParsed =>
        LET raw == fsAnswer.read.text.value
            parsed == ToolsConfigSchema(raw)
            accepted == /\ raw.type = "object"
                        /\ raw.features.type \in { "undefined", "object" }
                        /\ raw.tools.type \in { "undefined", "object" }
                        /\ KeysAndEntriesValid(raw)
        IN /\ parsed.ok <=> accepted
           /\ (outcome.kind = "returned") <=> accepted
           /\ accepted <=> (Violations(raw) = {})
           /\ parsed.ok =>
                /\ parsed.issues = <<>>
                /\ parsed.value = Normalized(raw)
                /\ outcome.config = Normalized(raw)
                /\ DOMAIN parsed.value = { "features", "tools" }
                /\ DOMAIN parsed.value.tools = { "disabled" }
           /\ raw = JObject(JFeaturesAbsent, JToolsAbsent, FALSE)
                => parsed.value = [features |-> NoFeatures,
                                   tools |-> [disabled |-> <<>>]]
           /\ ~parsed.ok =>
                /\ ReportsEachOnce(IssueLines(parsed.issues), raw)

\* a payload with a key the schema does not name, one override and a name
\* the catalog does not hold in disabled was accepted
C10_Witness ==
    /\ FileParsed
    /\ outcome.kind = "returned"
    /\ fsAnswer.read.text.value.extra
    /\ outcome.config.tools.disabled = << "unknown_tool" >>
    /\ DOMAIN outcome.config.features = { "wikis" }
    /\ ~outcome.config.features["wikis"]

(***************************************************************************)
(* Callers and reloads interleaved.                                        *)
(***************************************************************************)
\* the content the object behind ref had when it was handed out: the default
\* object as the module built it, another object as its load returned it
AsHandedOut(ref) ==
    IF ref = DefaultRef
    THEN DEFAULT_TOOLS_CONFIG
    ELSE (CHOOSE e \in Range(returned) : e.ref = ref).config

\* the result the resolver function fn computes from the arguments alone
PureResult(fn, name, list, config) ==
    CASE fn = "isFeatureEnabled" ->
           [bool |-> isFeatureEnabled(name, config), out |-> <<>>]
      [] fn = "isToolEnabled" ->
           [bool |-> ToolVerdict(name, config), out |-> <<>>]
      [] fn = "getEnabledTools" ->
           [bool |-> FALSE,
            out |-> SelectSeq(list, LAMBDA t : ToolVerdict(t, config))]
      [] fn = "getDisabledTools" ->
           [bool |-> FALSE,
            out |-> SelectSeq(list, LAMBDA t : ~ToolVerdict(t, config))]

\* C11: no call of the resolver and no call of loadToolsConfig changes the
\* default configuration or a configuration returned earlier: every object
\* still holds what it held when it was handed out, every load that read a
\* file returned an object of its own, and so, whatever calls and reloads
\* came in between, the result a caller gets is the one its arguments and
\* the static catalog determine.
C11_QueriesAreIsolated ==
    /\ heap[DefaultRef] = DEFAULT_TOOLS_CONFIG
    /\ \A k \in DOMAIN returned :
          /\ returned[k].ref \in DOMAIN heap
          /\ heap[returned[k].ref] = returned[k].config
          /\ \A j \in DOMAIN returned :
                (j # k /\ returned[j].ref = returned[k].ref)
                   => returned[k].ref = DefaultRef
    /\ lastAnswer.fn # "none" =>
          LET pure == PureResult(lastAnswer.fn, lastAnswer.name,
                                 lastAnswer.list, AsHandedOut(lastAnswer.ref))
          IN lastAnswer.bool = pure.bool /\ lastAnswer.out = pure.out

\* two loads have returned, the first the shared default object, the second
\* an object of its own; after both, the second caller has queried with the
\* default object, and what it got is the answer for that object, which is
\* not the answer for the configuration loaded last
C11_Witness ==
    /\ Len(returned) = 2
    /\ returned[1].ref = DefaultRef
    /\ returned[2].ref # DefaultRef
    /\ lastAnswer.caller = 2
    /\ lastAnswer.fn = "getEnabledTools"
    /\ lastAnswer.ref = DefaultRef
    /\ lastAnswer.seen = 2
    /\ lastAnswer.out = lastAnswer.list
    /\ lastAnswer.out # getEnabledTools(lastAnswer.list, heap[returned[2].ref])

(***************************************************************************)
(* updatePullRequestComment.                                               *)
(***************************************************************************)
Settled == pr.pc = "settled"

\* the error a step raised, NothingThrown when both steps returned
RaisedByAStep ==
    IF ~pr.gitApi.ok THEN pr.gitApi.error ELSE pr.updatedComment.error

\* both steps returned, and updateComment returned no comment
NullResult ==
    pr.gitApi.ok /\ pr.updatedComment.ok /\ Falsy(pr.updatedComment.value)

\* what holds of a settled call whatever the null case does: the two calls
\* are made once and in order, the call resolves only with the comment
\* updateComment returned, an AzureDevOpsError comes back as it was raised,
\* and any other error a step raised comes back wrapped
CallsAndErrors ==
    /\ pr.getGitApiCalls = 1
    /\ pr.updateCommentCalls = (IF pr.gitApi.ok THEN 1 ELSE 0)
    /\ pr.gitApi.ok => pr.calledWith = UpdateCommentArgs(pr.args)
    /\ pr.result.kind \in { "resolved", "rejected" }
    /\ pr.result.kind = "resolved" =>
          /\ pr.gitApi.ok /\ pr.updatedComment.ok
          /\ pr.updatedComment.value.type = "object"
          /\ pr.result.comment.id = pr.updatedComment.value.id
          /\ pr.result.comment.content = pr.updatedComment.value.content
          /\ pr.result.comment.commentType = "text"
    /\ RaisedByAStep.class = "AzureDevOpsError" =>
          /\ pr.result.kind = "rejected"
          /\ pr.result.error = RaisedByAStep
    /\ RaisedByAStep.class \in { "Error", "string" } =>
          /\ pr.result.kind = "rejected"
          /\ pr.result.error.class = "Error"
          /\ pr.result.error.message =
                FailedToUpdate \o ": " \o RaisedByAStep.message

\* C12 as stated: updatePullRequestComment obtains the git API once and then
\* calls updateComment once; it resolves with the updated comment only when
\* updateComment returned one; an AzureDevOpsError of either step is
\* propagated unchanged; a null result is rejected with the error
\* 'Failed to update pull request comment'; every other failure is rejected
\* with that text, ': ' and the underlying message.
C12_AsStated ==
    Settled =>
       /\ CallsAndErrors
       /\ NullResult =>
             /\ pr.result.kind = "rejected"
             /\ pr.result.error.class = "Error"
             /\ pr.result.error.message = FailedToUpdate

\* what the code does: all of the above except that the error thrown for a
\* null result passes through the catch block like any other Error, and
\* comes out with the text twice
C12_NullResultIsWrappedToo ==
    Settled =>
       /\ CallsAndErrors
       /\ NullResult =>
             /\ pr.result.kind = "rejected"
             /\ pr.result.error.class = "Error"
             /\ pr.result.error.message =
                   FailedToUpdate \o ": " \o FailedToUpdate

\* a call has settled after updateComment returned null
C12_Witness ==
    /\ Settled
    /\ pr.getGitApiCalls = 1
    /\ pr.updateCommentCalls = 1
    /\ pr.updatedComment.ok
    /\ pr.updatedComment.value.type = "null"
    /\ pr.result.kind = "rejected"

=============================================================================
